---- MODULE Spec2Model ----
(***************************************************************************)
(* The scoring engine of the quiz application (utils/scoring), the results *)
(* page that calls it (pages/QuizResults.tsx) and the two quiz-taking      *)
(* pages (pages/QuizTaking.tsx, one question at a time, and its paginated  *)
(* version).                                                               *)
(*                                                                         *)
(* JavaScript values are modelled as follows.                              *)
(*   - an optional value (a field that may be undefined) is a sequence of  *)
(*     length 0 (undefined) or 1 (the value);                              *)
(*   - an object used as a map from scale id to number is a function whose *)
(*     domain is the set of its own keys;                                  *)
(*   - numbers are integers: the weights of the model and their sums are   *)
(*     far below 2^53, where JavaScript's number addition is exact;        *)
(*   - a thrown exception is an outcome of the call, not a value.          *)
(***************************************************************************)
EXTENDS Integers, Sequences, FiniteSets, TLC

VARIABLES
    quiz,       \* location.state.quiz: the Quiz handed to the results page
    questions,  \* questionsData.questions: the fetched question bank
    answers,    \* location.state.answers: the QuizAnswer list
    outcome,    \* how the call of calculateQuizScores ended (undefined before the call)
    result,     \* QuizResults: useState<QuizResult | null>
    pageQuiz,   \* QuizResults: useState<Quiz | null>
    error,      \* QuizResults: useState<string | null>
    loading,    \* QuizResults: useState(true)
    previous,   \* how the call before the last one ended (undefined before two calls)
    rendered,   \* QuizResults: what the score breakdown shows for each scale
    described,  \* the last call of getScaleDescription: arguments and return value
    displayed,  \* the last call of formatScoreForDisplay: argument and return value
    currentQuestionIndex,  \* QuizTaking: useState(0)
    selection,             \* QuizTaking: selectedOption, useState<number | null>(null)
    currentPageIndex,      \* paginated QuizTaking: useState(0)
    pageAnswers,           \* paginated QuizTaking: useState<{[questionId]: number}>({})
    effectPending,         \* paginated QuizTaking: the page-load effect has yet to run
    navigated,             \* the state handed to navigate('/results/...'), once called
    fromPage,              \* history: the page index navigate was called from
    lastPick,              \* history: per question id, the option selected last
    replaced,              \* history: handleNext has overwritten a stored answer
    leftWith               \* history: per question id, the option shown selected when
                           \* its page was last left with Next

resultsVars == <<quiz, questions, answers, outcome, result, pageQuiz, error, loading>>
scoringVars == <<previous, rendered, described, displayed>>
takingVars == <<currentQuestionIndex, selection, currentPageIndex, pageAnswers,
                effectPending, navigated, fromPage, lastPick, replaced,
                leftWith>>
vars == <<resultsVars, scoringVars, takingVars>>

(***************************************************************************)
(* Optional values.                                                        *)
(***************************************************************************)
Undefined == << >>
Some(v) == <<v>>
IsDefined(o) == Len(o) > 0
Get(o) == o[1]

(***************************************************************************)
(* Bounds and input sets.                                                  *)
(***************************************************************************)
MaxAnswers == 2
MaxScore == 25
MaxQuestions == 5

\* The page size. The source sets 8; the model takes a smaller page so that banks
\* of a few questions spread over several pages.
QUESTIONS_PER_PAGE == 2

Times == {1, 2}

MBTI == "mbti-personality"
QuizIds == {MBTI, "career-values"}

Scale(id, pos, neg) == [id |-> id, positiveLabel |-> pos, negativeLabel |-> neg]

ScaleEI == Scale("EI", "Extraversion", "Introversion")
ScaleSN == Scale("SN", "Sensing", "Intuition")
ScaleTF == Scale("TF", "Thinking", "Feeling")
ScaleJP == Scale("JP", "Judging", "Perceiving")

ScaleLists == {<<ScaleEI, ScaleSN, ScaleTF, ScaleJP>>, <<ScaleEI, ScaleSN, ScaleTF>>}

ScaleA == Scale("A", "Alpha", "Omega")
ScaleB == Scale("B", "Bold", "Shy")

EmptyTable == [c \in {} |-> ""]
MbtiTable == [ENFP |-> "The Campaigner", ISTJ |-> "The Logistician"]
TypeTables == {Undefined, Some(EmptyTable), Some(MbtiTable)}

Quizzes == [id : QuizIds, scales : ScaleLists, personalityTypes : TypeTables]

\* The quizzes the formatter is called with, and its other arguments.
ABQuiz == [id |-> "two-scales", scales |-> <<ScaleA, ScaleB>>, personalityTypes |-> Undefined]
MbtiQuiz == [id |-> MBTI, scales |-> <<ScaleEI, ScaleSN, ScaleTF, ScaleJP>>,
             personalityTypes |-> Some(MbtiTable)]
FormatQuizzes == {ABQuiz, MbtiQuiz}
ScaleIdArgs == {"A", "B", "EI", "ZZ"}
ScoreArgs == (-MaxScore)..MaxScore

NoWeights == [d \in {} |-> 0]
EmptyMap == [k \in {} |-> 0]
Option(w) == [weights |-> w]

\* A multiple-choice question: options, no weights of its own.
Q1 == [id |-> 1, type |-> "multiple-choice", weights |-> Undefined,
       options |-> Some(<<Option(Some([EI |-> 5, SN |-> -3, JP |-> -1])),
                          Option(Some([EI |-> -5, SN |-> 3, TF |-> 2, JP |-> 1]))>>)]
\* A multiple-choice question with a weight for a scale no quiz declares ("X"),
\* and an option that carries no weights.
Q2 == [id |-> 2, type |-> "multiple-choice", weights |-> Undefined,
       options |-> Some(<<Option(Some([SN |-> 3, X |-> 2])),
                          Option(Undefined),
                          Option(Some([TF |-> -2, JP |-> 1, EI |-> 0]))>>)]
\* A likert-scale question as quiz.ts:20 describes it: weights, no options.
Q3a == [id |-> 3, type |-> "likert-scale", weights |-> Some([EI |-> 2, TF |-> -1]),
        options |-> Undefined]
\* A likert-scale question that carries both fields.
Q3b == [id |-> 3, type |-> "likert-scale", weights |-> Some([EI |-> 2, TF |-> -1]),
        options |-> Some(<<Option(Some([EI |-> 1])), Option(Some([EI |-> -1]))>>)]

\* The question of the two-scale quiz: one option for each scale.
QAB == [id |-> 1, type |-> "multiple-choice", weights |-> Undefined,
        options |-> Some(<<Option(Some([A |-> 10])), Option(Some([B |-> 10]))>>)]

\* Question banks: ids are unique within a bank.
Banks == {c1 \o c2 \o c3 : c1 \in {<< >>, <<Q1>>}, c2 \in {<< >>, <<Q2>>},
                           c3 \in {<< >>, <<Q3a>>, <<Q3b>>}}

\* The quizzes and banks the whole results page is run with.
PageQuizzes == {ABQuiz, MbtiQuiz}
PageBanks == {<<QAB>>, <<Q1, Q2>>, <<Q1, Q2, Q3a>>}

\* The banks the quiz-taking pages are run with: multiple-choice questions with
\* two options each, ids unique and different from the positions in the bank.
TakingQuestion(i) ==
    [id |-> 100 + i, type |-> "multiple-choice", weights |-> Undefined,
     options |-> Some(<<Option(Some([EI |-> 1])), Option(Some([EI |-> -1]))>>)]
TakingBank(n) == [i \in 1..n |-> TakingQuestion(i)]
TakingBanks == {TakingBank(n) : n \in 1..MaxQuestions}

AnswerQuestionIds == 1..4
OptionIndexes == 0..2
Answers == [questionId : AnswerQuestionIds, selectedOption : OptionIndexes]
AnswerLists == UNION {[1..n -> Answers] : n \in 0..MaxAnswers}

(***************************************************************************)
(* The pages as mounted.                                                   *)
(***************************************************************************)
\* The results page as mounted, before its effect ran.
ResultsMounted ==
    /\ outcome = Undefined
    /\ result = Undefined
    /\ pageQuiz = Undefined
    /\ error = Undefined
    /\ loading = TRUE

\* Nothing of the scoring helpers was called yet.
ScoringIdle ==
    /\ previous = Undefined
    /\ rendered = Undefined
    /\ described = Undefined
    /\ displayed = Undefined

\* The quiz-taking pages as mounted: useState's initial values.
TakingMounted ==
    /\ currentQuestionIndex = 0
    /\ selection = Undefined
    /\ currentPageIndex = 0
    /\ pageAnswers = EmptyMap
    /\ effectPending = FALSE
    /\ navigated = Undefined
    /\ fromPage = Undefined
    /\ lastPick = EmptyMap
    /\ replaced = FALSE
    /\ leftWith = EmptyMap

(***************************************************************************)
(* utils/scoring: calculateQuizScores                                      *)
(***************************************************************************)
\* The loop over quiz.scales stops one short.
InitScores_SkipsLast(q) ==
    [d \in {q.scales[i].id : i \in 1..(Len(q.scales) - 1)} |-> 0]

\* quiz.scales.forEach(scale => { scores[scale.id] = 0; })
InitScores(q) == [d \in {q.scales[i].id : i \in DOMAIN q.scales} |-> 0]

\* questions.find(q => q.id === id): the first match, or undefined
Find(qs, id) ==
    LET hits == {i \in DOMAIN qs : qs[i].id = id}
    IN IF hits = {} THEN Undefined
       ELSE Some(qs[CHOOSE i \in hits : \A j \in hits : i <= j])

\* An index past the end reads the last element.
At_Clamps(arr, index) ==
    IF index >= 0 /\ Len(arr) > 0
    THEN Some(arr[IF index < Len(arr) THEN index + 1 ELSE Len(arr)])
    ELSE Undefined

\* array[index]: undefined outside 0 .. length-1
At(arr, index) ==
    IF index >= 0 /\ index < Len(arr) THEN Some(arr[index + 1]) ELSE Undefined

\* "=" written for "+=": the last weight wins.
AddWeights_Overwrites(scores, weights) ==
    [d \in DOMAIN scores |-> IF d \in DOMAIN weights THEN weights[d] ELSE scores[d]]

\* The hasOwnProperty test left out: every key of the weights lands in scores.
AddWeights_NoOwnCheck(scores, weights) ==
    [d \in DOMAIN scores \cup DOMAIN weights |->
        IF d \in DOMAIN weights
        THEN (IF d \in DOMAIN scores THEN scores[d] ELSE 0) + weights[d]
        ELSE scores[d]]

\* Object.entries(weights).forEach(([scaleId, weight]) => {
\*   if (scores.hasOwnProperty(scaleId)) scores[scaleId] += weight; })
AddWeights(scores, weights) ==
    [d \in DOMAIN scores |->
        IF d \in DOMAIN weights THEN scores[d] + weights[d] ELSE scores[d]]

\* The body of answers.forEach: acc is [threw, scores]; once an exception is
\* thrown the remaining answers are not visited.
ProcessAnswer(acc, qs, answer) ==
    IF acc.threw THEN acc
    ELSE LET question == Find(qs, answer.questionId)
         IN IF ~IsDefined(question) THEN acc
            ELSE IF ~IsDefined(Get(question).options)
                 THEN \* question.options[...] with options undefined: TypeError
                      [acc EXCEPT !.threw = TRUE]
                 ELSE LET selectedOption ==
                              At(Get(Get(question).options), answer.selectedOption)
                      IN IF IsDefined(selectedOption)
                            /\ IsDefined(Get(selectedOption).weights)
                         THEN [acc EXCEPT !.scores =
                                  AddWeights(acc.scores, Get(Get(selectedOption).weights))]
                         ELSE acc

RECURSIVE ForEachAnswer(_, _, _, _)
ForEachAnswer(acc, qs, as, i) ==
    IF i > Len(as) THEN acc
    ELSE ForEachAnswer(ProcessAnswer(acc, qs, as[i]), qs, as, i + 1)

\* scores[key] || 0
ScoreOrZero(scores, key) == IF key \in DOMAIN scores THEN scores[key] ELSE 0

\* ">= 0" written for "> 0": a zero score takes the first letter.
determinePersonalityType_ZeroIsFirst(q, scores) ==
    IF q.id # MBTI THEN "Unknown"
    ELSE "" \o (IF ScoreOrZero(scores, "EI") >= 0 THEN "E" ELSE "I")
            \o (IF ScoreOrZero(scores, "SN") >= 0 THEN "S" ELSE "N")
            \o (IF ScoreOrZero(scores, "TF") >= 0 THEN "T" ELSE "F")
            \o (IF ScoreOrZero(scores, "JP") >= 0 THEN "J" ELSE "P")

\* The test of quiz.id left out: every quiz is classified as MBTI.
determinePersonalityType_NoIdCheck(q, scores) ==
    "" \o (IF ScoreOrZero(scores, "EI") > 0 THEN "E" ELSE "I")
       \o (IF ScoreOrZero(scores, "SN") > 0 THEN "S" ELSE "N")
       \o (IF ScoreOrZero(scores, "TF") > 0 THEN "T" ELSE "F")
       \o (IF ScoreOrZero(scores, "JP") > 0 THEN "J" ELSE "P")

determinePersonalityType(q, scores) ==
    IF q.id # MBTI THEN "Unknown"
    ELSE "" \o (IF ScoreOrZero(scores, "EI") > 0 THEN "E" ELSE "I")
            \o (IF ScoreOrZero(scores, "SN") > 0 THEN "S" ELSE "N")
            \o (IF ScoreOrZero(scores, "TF") > 0 THEN "T" ELSE "F")
            \o (IF ScoreOrZero(scores, "JP") > 0 THEN "J" ELSE "P")

\* The classifier runs only for a table with at least one entry.
PersonalityTypeOf_NonEmptyOnly(q, scores) ==
    IF IsDefined(q.personalityTypes) /\ DOMAIN Get(q.personalityTypes) # {}
    THEN Some(determinePersonalityType(q, scores))
    ELSE Undefined

\* let personalityType; if (quiz.personalityTypes) personalityType = ...
\* Any object, an empty one included, is truthy.
PersonalityTypeOf(q, scores) ==
    IF IsDefined(q.personalityTypes)
    THEN Some(determinePersonalityType(q, scores))
    ELSE Undefined

\* The call: it throws, or it returns a QuizResult.
calculateQuizScores(q, qs, as, now) ==
    LET acc == ForEachAnswer([threw |-> FALSE, scores |-> InitScores(q)], qs, as, 1)
    IN IF acc.threw
       THEN [threw |-> TRUE, value |-> Undefined]
       ELSE [threw |-> FALSE,
             value |-> Some([quizId |-> q.id,
                             scores |-> acc.scores,
                             personalityType |-> PersonalityTypeOf(q, acc.scores),
                             completedAt |-> now])]

(***************************************************************************)
(* utils/scoring: getScaleDescription, formatScoreForDisplay               *)
(***************************************************************************)
\* Math.abs
Abs(n) == IF n < 0 THEN -n ELSE n

\* quiz.scales.find(s => s.id === scaleId)
FindScale(scales, scaleId) ==
    LET hits == {i \in DOMAIN scales : scales[i].id = scaleId}
    IN IF hits = {} THEN Undefined
       ELSE Some(scales[CHOOSE i \in hits : \A j \in hits : i <= j])

\* ">" written for ">=": the thresholds themselves fall in the lower band.
Strength_ExclusiveBounds(score) ==
    LET absScore == Abs(score)
    IN IF absScore > 20 THEN "Strong"
       ELSE IF absScore > 10 THEN "Moderate"
       ELSE IF absScore > 5 THEN "Slight"
       ELSE "Balanced"

\* let strength: the chain of tests on absScore
Strength(score) ==
    LET absScore == Abs(score)
    IN IF absScore >= 20 THEN "Strong"
       ELSE IF absScore >= 10 THEN "Moderate"
       ELSE IF absScore >= 5 THEN "Slight"
       ELSE "Balanced"

\* The two labels the wrong way round.
getScaleDescription_SwapsLabels(scaleId, score, q) ==
    LET scale == FindScale(q.scales, scaleId)
    IN IF ~IsDefined(scale) THEN ""
       ELSE LET tendency == IF score > 0 THEN Get(scale).negativeLabel
                                         ELSE Get(scale).positiveLabel
                strength == Strength(score)
            IN IF strength = "Balanced"
               THEN "Balanced between " \o Get(scale).positiveLabel
                        \o " and " \o Get(scale).negativeLabel
               ELSE strength \o " preference for " \o tendency

\* An unknown id falls back to the quiz's first scale.
getScaleDescription_FallsBack(scaleId, score, q) ==
    LET found == FindScale(q.scales, scaleId)
        scale == IF IsDefined(found) THEN found ELSE Some(q.scales[1])
    IN LET tendency == IF score > 0 THEN Get(scale).positiveLabel
                                    ELSE Get(scale).negativeLabel
           strength == Strength(score)
       IN IF strength = "Balanced"
          THEN "Balanced between " \o Get(scale).positiveLabel
                   \o " and " \o Get(scale).negativeLabel
          ELSE strength \o " preference for " \o tendency

getScaleDescription(scaleId, score, q) ==
    LET scale == FindScale(q.scales, scaleId)
    IN IF ~IsDefined(scale) THEN ""
       ELSE LET tendency == IF score > 0 THEN Get(scale).positiveLabel
                                         ELSE Get(scale).negativeLabel
                strength == Strength(score)
            IN IF strength = "Balanced"
               THEN "Balanced between " \o Get(scale).positiveLabel
                        \o " and " \o Get(scale).negativeLabel
               ELSE strength \o " preference for " \o tendency

\* ">= 0" written for "> 0".
formatScoreForDisplay_PlusZero(score) ==
    IF score >= 0 THEN "+" \o ToString(score) ELSE ToString(score)

\* score > 0 ? `+${score}` : `${score}`
formatScoreForDisplay(score) ==
    IF score > 0 THEN "+" \o ToString(score) ELSE ToString(score)

\* A call of getScaleDescription, with any arguments.
Describe ==
    /\ \E scaleId \in ScaleIdArgs, score \in ScoreArgs :
          described' = Some([scaleId |-> scaleId, score |-> score,
                             description |-> getScaleDescription(scaleId, score, quiz)])
    /\ UNCHANGED <<resultsVars, previous, rendered, displayed, takingVars>>

\* A call of formatScoreForDisplay, with any score.
Format ==
    /\ \E score \in ScoreArgs :
          displayed' = Some([score |-> score, text |-> formatScoreForDisplay(score)])
    /\ UNCHANGED <<resultsVars, previous, rendered, described, takingVars>>

InitFormat ==
    /\ quiz \in FormatQuizzes
    /\ questions = << >>
    /\ answers = << >>
    /\ ResultsMounted
    /\ ScoringIdle
    /\ TakingMounted

NextFormat == Describe \/ Format

SpecFormat == InitFormat /\ [][NextFormat]_vars

(***************************************************************************)
(* pages/QuizResults.tsx: the effect that computes the results             *)
(***************************************************************************)
Init ==
    /\ quiz \in Quizzes
    /\ questions \in Banks
    /\ answers \in AnswerLists
    /\ ResultsMounted
    /\ ScoringIdle
    /\ TakingMounted

CalculateResults ==
    /\ loading
    /\ \E now \in Times :
         LET quizResult == calculateQuizScores(quiz, questions, answers, now)
         IN /\ outcome' = Some(quizResult)
            /\ IF quizResult.threw
               THEN /\ error' = Some("TypeError")
                    /\ UNCHANGED <<result, pageQuiz>>
               ELSE /\ result' = quizResult.value
                    /\ pageQuiz' = Some(quiz)
                    /\ UNCHANGED error
    /\ loading' = FALSE
    /\ UNCHANGED <<quiz, questions, answers>>
    /\ UNCHANGED <<scoringVars, takingVars>>

Next == CalculateResults

Spec == Init /\ [][Next]_vars

\* The second call works on the scores object of the first (scores kept outside
\* the function instead of being created by each call).
CalculateAgain_KeepsScores ==
    /\ IsDefined(outcome) /\ ~IsDefined(previous)
    /\ \E now \in Times :
         LET seed == IF Get(outcome).threw THEN InitScores(quiz)
                     ELSE Get(Get(outcome).value).scores
             acc == ForEachAnswer([threw |-> FALSE, scores |-> seed], questions, answers, 1)
             quizResult ==
                 IF acc.threw THEN [threw |-> TRUE, value |-> Undefined]
                 ELSE [threw |-> FALSE,
                       value |-> Some([quizId |-> quiz.id, scores |-> acc.scores,
                                       personalityType |-> PersonalityTypeOf(quiz, acc.scores),
                                       completedAt |-> now])]
         IN /\ outcome' = Some(quizResult)
            /\ IF quizResult.threw
               THEN /\ error' = Some("TypeError")
                    /\ UNCHANGED <<result, pageQuiz>>
               ELSE /\ result' = quizResult.value
                    /\ pageQuiz' = Some(quiz)
                    /\ UNCHANGED error
    /\ previous' = outcome
    /\ rendered' = Undefined
    /\ UNCHANGED <<quiz, questions, answers, loading, described, displayed, takingVars>>

\* The effect runs a second time on the same location.state (React runs it
\* again when its dependencies [quizId, location.state] are replaced, and twice
\* on mount in strict mode): calculateQuizScores is called again.
CalculateAgain ==
    /\ IsDefined(outcome) /\ ~IsDefined(previous)
    /\ \E now \in Times :
         LET quizResult == calculateQuizScores(quiz, questions, answers, now)
         IN /\ outcome' = Some(quizResult)
            /\ IF quizResult.threw
               THEN /\ error' = Some("TypeError")
                    /\ UNCHANGED <<result, pageQuiz>>
               ELSE /\ result' = quizResult.value
                    /\ pageQuiz' = Some(quiz)
                    /\ UNCHANGED error
    /\ previous' = outcome
    /\ rendered' = Undefined
    /\ UNCHANGED <<quiz, questions, answers, loading, described, displayed, takingVars>>

\* The score breakdown: quiz.scales.map(scale => ...), rendered once the page
\* is past its loading and error returns.
RenderBreakdown ==
    /\ ~loading /\ ~IsDefined(error) /\ IsDefined(result) /\ IsDefined(pageQuiz)
    /\ ~IsDefined(rendered)
    /\ rendered' =
          Some([i \in 1..Len(Get(pageQuiz).scales) |->
                  LET scale == Get(pageQuiz).scales[i]
                      score == ScoreOrZero(Get(result).scores, scale.id)
                  IN [id |-> scale.id,
                      score |-> score,
                      display |-> formatScoreForDisplay(score),
                      description |-> getScaleDescription(scale.id, score, Get(pageQuiz))]])
    /\ UNCHANGED <<resultsVars, previous, described, displayed, takingVars>>

InitPage ==
    /\ quiz \in PageQuizzes
    /\ questions \in PageBanks
    /\ answers \in AnswerLists
    /\ ResultsMounted
    /\ ScoringIdle
    /\ TakingMounted

NextPage == CalculateResults \/ CalculateAgain \/ RenderBreakdown

SpecPage == InitPage /\ [][NextPage]_vars

(***************************************************************************)
(* pages/QuizTaking.tsx: one question at a time                            *)
(***************************************************************************)
\* answers.findIndex(a => a.questionId === id): 0-based, -1 when there is none
FindAnswerIndex(as, id) ==
    LET hits == {i \in DOMAIN as : as[i].questionId = id}
    IN IF hits = {} THEN -1
       ELSE (CHOOSE i \in hits : \A j \in hits : i <= j) - 1

\* The new answer is pushed whether or not the question has one.
SaveAnswer_AlwaysPushes(as, newAnswer) == Append(as, newAnswer)

\* updatedAnswers[existingAnswerIndex] = newAnswer, or updatedAnswers.push(newAnswer)
SaveAnswer(as, newAnswer) ==
    LET existingAnswerIndex == FindAnswerIndex(as, newAnswer.questionId)
    IN IF existingAnswerIndex >= 0
       THEN [as EXCEPT ![existingAnswerIndex + 1] = newAnswer]
       ELSE Append(as, newAnswer)

\* The question shown (0-based index into the bank).
CurrentQuestion == questions[currentQuestionIndex + 1]

\* The option buttons rendered for a question of the one-at-a-time page.
OptionsOf(question) ==
    IF IsDefined(question.options) THEN 0..(Len(Get(question.options)) - 1) ELSE {}

Single_handleAnswerSelect ==
    /\ ~IsDefined(navigated)
    /\ \E optionIndex \in OptionsOf(CurrentQuestion) :
          /\ selection' = Some(optionIndex)
          /\ lastPick' = [k \in DOMAIN lastPick \cup {CurrentQuestion.id} |->
                             IF k = CurrentQuestion.id THEN optionIndex ELSE lastPick[k]]
    /\ UNCHANGED <<resultsVars, scoringVars, currentQuestionIndex, currentPageIndex,
                   pageAnswers, effectPending, navigated, fromPage, replaced, leftWith>>

Single_handleNext ==
    /\ ~IsDefined(navigated)
    /\ IsDefined(selection)       \* if (selectedOption === null) return;
    /\ LET newAnswer == [questionId |-> CurrentQuestion.id, selectedOption |-> Get(selection)]
           updatedAnswers == SaveAnswer(answers, newAnswer)
       IN /\ answers' = updatedAnswers
          /\ replaced' = (replaced \/ FindAnswerIndex(answers, CurrentQuestion.id) >= 0)
          /\ IF currentQuestionIndex < Len(questions) - 1
             THEN /\ currentQuestionIndex' = currentQuestionIndex + 1
                  /\ selection' = Undefined
                  /\ UNCHANGED <<navigated, fromPage>>
             ELSE /\ navigated' = Some([answers |-> updatedAnswers, quiz |-> quiz])
                  /\ fromPage' = Some(currentQuestionIndex)
                  /\ UNCHANGED <<currentQuestionIndex, selection>>
    /\ UNCHANGED <<quiz, questions, outcome, result, pageQuiz, error, loading, scoringVars,
                   currentPageIndex, pageAnswers, effectPending, lastPick, leftWith>>

Single_handlePrevious ==
    /\ ~IsDefined(navigated)
    /\ currentQuestionIndex > 0
    /\ currentQuestionIndex' = currentQuestionIndex - 1
    /\ LET existing == FindAnswerIndex(answers, questions[currentQuestionIndex].id)
       IN selection' = IF existing >= 0 THEN Some(answers[existing + 1].selectedOption)
                       ELSE Undefined
    /\ UNCHANGED <<resultsVars, scoringVars, currentPageIndex, pageAnswers, effectPending,
                   navigated, fromPage, lastPick, replaced, leftWith>>

InitSingle ==
    /\ quiz \in PageQuizzes
    /\ questions \in TakingBanks
    /\ answers = << >>
    /\ ResultsMounted
    /\ ScoringIdle
    /\ TakingMounted

NextSingle == Single_handleAnswerSelect \/ Single_handleNext \/ Single_handlePrevious

SpecSingle == InitSingle /\ [][NextSingle]_vars

(***************************************************************************)
(* The paginated quiz-taking page                                          *)
(***************************************************************************)
\* Math.ceil(questions.length / QUESTIONS_PER_PAGE)
totalPages == (Len(questions) + QUESTIONS_PER_PAGE - 1) \div QUESTIONS_PER_PAGE

Min(a, b) == IF a < b THEN a ELSE b

\* questions.slice(page * QUESTIONS_PER_PAGE, (page + 1) * QUESTIONS_PER_PAGE)
PageQuestions(page) ==
    SubSeq(questions, page * QUESTIONS_PER_PAGE + 1,
           Min((page + 1) * QUESTIONS_PER_PAGE, Len(questions)))
currentPageQuestions == PageQuestions(currentPageIndex)

\* The option buttons rendered for a question of the paginated page: the five
\* likert labels, or question.options?.map.
PagedOptionsOf(question) ==
    IF question.type = "likert-scale" THEN 0..4
    ELSE IF IsDefined(question.options) THEN 0..(Len(Get(question.options)) - 1)
    ELSE {}

\* "some" written for "every": one answered question enables Next.
areAllQuestionsAnswered_Some ==
    \E i \in 1..Len(currentPageQuestions) :
        currentPageQuestions[i].id \in DOMAIN pageAnswers

\* currentPageQuestions.every(question => pageAnswers[question.id] !== undefined)
areAllQuestionsAnswered ==
    \A i \in 1..Len(currentPageQuestions) :
        currentPageQuestions[i].id \in DOMAIN pageAnswers

\* The effect "Load existing answers for the current page": React runs it after
\* the render that follows a change of currentPageIndex, questions or answers,
\* and before the next event is handled.
PageLoadEffect ==
    /\ effectPending
    /\ ~IsDefined(navigated)
    /\ pageAnswers' =
          LET stored == {i \in 1..Len(currentPageQuestions) :
                            FindAnswerIndex(answers, currentPageQuestions[i].id) >= 0}
              ids == {currentPageQuestions[i].id : i \in stored}
          IN [id \in ids |-> answers[FindAnswerIndex(answers, id) + 1].selectedOption]
    /\ effectPending' = FALSE
    /\ UNCHANGED <<resultsVars, scoringVars, currentQuestionIndex, selection,
                   currentPageIndex, navigated, fromPage, lastPick, replaced, leftWith>>

Paged_handleAnswerSelect ==
    /\ ~effectPending /\ ~IsDefined(navigated)
    /\ \E i \in 1..Len(currentPageQuestions) :
         \E optionIndex \in PagedOptionsOf(currentPageQuestions[i]) :
            LET questionId == currentPageQuestions[i].id
            IN /\ pageAnswers' = [k \in DOMAIN pageAnswers \cup {questionId} |->
                                     IF k = questionId THEN optionIndex ELSE pageAnswers[k]]
               /\ lastPick' = [k \in DOMAIN lastPick \cup {questionId} |->
                                  IF k = questionId THEN optionIndex ELSE lastPick[k]]
    /\ UNCHANGED <<resultsVars, scoringVars, currentQuestionIndex, selection,
                   currentPageIndex, effectPending, navigated, fromPage, replaced, leftWith>>

\* The loop of handleNext over the page's questions: every question with a
\* selection is saved.
RECURSIVE SavePageAnswers(_, _, _)
SavePageAnswers(as, qs, i) ==
    IF i > Len(qs) THEN as
    ELSE IF qs[i].id \in DOMAIN pageAnswers
         THEN SavePageAnswers(
                  SaveAnswer(as, [questionId |-> qs[i].id,
                                  selectedOption |-> pageAnswers[qs[i].id]]), qs, i + 1)
         ELSE SavePageAnswers(as, qs, i + 1)

\* The Next button is disabled unless areAllQuestionsAnswered().
Paged_handleNext ==
    /\ ~effectPending /\ ~IsDefined(navigated)
    /\ areAllQuestionsAnswered
    /\ LET updatedAnswers == SavePageAnswers(answers, currentPageQuestions, 1)
           saved == {currentPageQuestions[i].id : i \in 1..Len(currentPageQuestions)}
                        \cap DOMAIN pageAnswers
       IN /\ answers' = updatedAnswers
          /\ replaced' = (replaced \/ \E id \in saved : FindAnswerIndex(answers, id) >= 0)
          /\ leftWith' = [k \in DOMAIN leftWith \cup saved |->
                             IF k \in saved THEN pageAnswers[k] ELSE leftWith[k]]
          /\ IF currentPageIndex < totalPages - 1
             THEN /\ currentPageIndex' = currentPageIndex + 1
                  /\ effectPending' = TRUE
                  /\ UNCHANGED <<navigated, fromPage>>
             ELSE /\ navigated' = Some([answers |-> updatedAnswers, quiz |-> quiz])
                  /\ fromPage' = Some(currentPageIndex)
                  /\ UNCHANGED <<currentPageIndex, effectPending>>
    /\ UNCHANGED <<quiz, questions, outcome, result, pageQuiz, error, loading, scoringVars,
                   currentQuestionIndex, selection, pageAnswers, lastPick>>

\* Previous saves the page's selections before going back, as Next does.
Paged_handlePrevious_SavesFirst ==
    /\ ~effectPending /\ ~IsDefined(navigated)
    /\ IF currentPageIndex > 0
       THEN /\ currentPageIndex' = currentPageIndex - 1
            /\ answers' = SavePageAnswers(answers, currentPageQuestions, 1)
            /\ effectPending' = TRUE
       ELSE UNCHANGED <<currentPageIndex, answers, effectPending>>
    /\ UNCHANGED <<quiz, questions, outcome, result, pageQuiz, error, loading, scoringVars,
                   currentQuestionIndex, selection, pageAnswers, navigated, fromPage,
                   lastPick, replaced, leftWith>>

\* if (currentPageIndex > 0) setCurrentPageIndex(currentPageIndex - 1)
Paged_handlePrevious ==
    /\ ~effectPending /\ ~IsDefined(navigated)
    /\ IF currentPageIndex > 0
       THEN /\ currentPageIndex' = currentPageIndex - 1
            /\ effectPending' = TRUE
       ELSE UNCHANGED <<currentPageIndex, effectPending>>
    /\ UNCHANGED <<resultsVars, scoringVars, currentQuestionIndex, selection, pageAnswers,
                   navigated, fromPage, lastPick, replaced, leftWith>>

InitPaged ==
    /\ quiz \in PageQuizzes
    /\ questions \in TakingBanks
    /\ answers = << >>
    /\ ResultsMounted
    /\ ScoringIdle
    /\ TakingMounted

NextPaged == PageLoadEffect \/ Paged_handleAnswerSelect \/ Paged_handleNext
                \/ Paged_handlePrevious

SpecPaged == InitPaged /\ [][NextPaged]_vars

(***************************************************************************)
(* What the claims speak of, stated from the inputs alone.                 *)
(***************************************************************************)
Called == IsDefined(outcome)
Threw == Called /\ Get(outcome).threw
Returned == Called /\ ~Get(outcome).threw
ReturnedScores == Get(Get(outcome).value).scores
ReturnedType == Get(Get(outcome).value).personalityType

\* The dimension ids the quiz declares.
Declared == {quiz.scales[i].id : i \in 1..Len(quiz.scales)}

\* The question an answer refers to (ids are unique in a bank).
Exists(a) == \E i \in 1..Len(questions) : questions[i].id = a.questionId
QuestionOf(a) == questions[CHOOSE i \in 1..Len(questions) : questions[i].id = a.questionId]

HasOptions(a) == Exists(a) /\ QuestionOf(a).options # Undefined
InRange(a) == HasOptions(a) /\ a.selectedOption \in 0..(Len(QuestionOf(a).options[1]) - 1)
SelectedOf(a) == QuestionOf(a).options[1][a.selectedOption + 1]
CarriesWeights(a) == InRange(a) /\ SelectedOf(a).weights # Undefined

\* The weight an answer entry contributes to dimension d: that of its selected
\* option, when the question exists and the option is in range and carries weights.
Contribution(a, d) ==
    IF CarriesWeights(a) /\ d \in DOMAIN SelectedOf(a).weights[1]
    THEN SelectedOf(a).weights[1][d]
    ELSE 0

RECURSIVE SumOver(_, _, _)
SumOver(as, d, i) ==
    IF i > Len(as) THEN 0 ELSE Contribution(as[i], d) + SumOver(as, d, i + 1)

ExpectedTotal(d) == SumOver(answers, d, 1)

\* C1: for every quiz, bank with unique ids and answer list, the call returns,
\* for each declared dimension, the sum over the answer entries (each entry
\* counted) of the selected option's weight for that dimension.
C1_TotalsAreSums ==
    Called => /\ ~Get(outcome).threw
              /\ \A d \in Declared :
                    d \in DOMAIN ReturnedScores /\ ReturnedScores[d] = ExpectedTotal(d)

\* The same equation for the calls that return (not a claim: the part of C1
\* the code keeps).
TotalsAreSumsWhenReturned ==
    Returned => \A d \in Declared :
                    d \in DOMAIN ReturnedScores /\ ReturnedScores[d] = ExpectedTotal(d)

\* C2: the call never raises: for every answer list and question bank, banks
\* with likert-scale questions without options included, it returns a result.
C2_NeverThrows == Called => ~Get(outcome).threw

\* A direct-weighted question: a likert-scale question with its own weights.
DirectWeighted(a) ==
    Exists(a) /\ QuestionOf(a).type = "likert-scale" /\ QuestionOf(a).weights # Undefined

DirectContribution(a, d) ==
    IF DirectWeighted(a)
    THEN IF d \in DOMAIN QuestionOf(a).weights[1] THEN QuestionOf(a).weights[1][d] ELSE 0
    ELSE Contribution(a, d)

RECURSIVE DirectSumOver(_, _, _)
DirectSumOver(as, d, i) ==
    IF i > Len(as) THEN 0 ELSE DirectContribution(as[i], d) + DirectSumOver(as, d, i + 1)

\* C3: an answer to a direct-weighted question adds the question's own weights
\* to the declared dimensions' totals, whatever its selected-option index.
C3_DirectWeightsAdded ==
    (Called /\ \E i \in 1..Len(answers) : DirectWeighted(answers[i]))
        => /\ ~Get(outcome).threw
           /\ \A d \in Declared : ReturnedScores[d] = DirectSumOver(answers, d, 1)

\* The dimensions some answer entry touches.
Touched(d) ==
    \E i \in 1..Len(answers) :
        CarriesWeights(answers[i]) /\ d \in DOMAIN SelectedOf(answers[i]).weights[1]

\* C4: a returned score vector has an entry for every declared dimension; a
\* dimension no answer touched is 0; with no answers the call returns all zeros.
C4_EveryDimensionPresent ==
    /\ (Called /\ answers = << >>) => ~Get(outcome).threw
    /\ Returned => /\ Declared \subseteq DOMAIN ReturnedScores
                   /\ \A d \in Declared : ~Touched(d) => ReturnedScores[d] = 0

C4_Witness ==
    /\ Returned
    /\ answers # << >>
    /\ \E d \in Declared : ~Touched(d) /\ ReturnedScores[d] = 0
    /\ \E d \in Declared : Touched(d) /\ ReturnedScores[d] # 0

\* With no answers at all every declared dimension is 0.
C4_WitnessEmpty ==
    Returned /\ answers = << >> /\ \A d \in Declared : ReturnedScores[d] = 0

\* What a call leaves to compare: whether it threw, and the score vector.
ScoresOf(o) ==
    [threw |-> o.threw,
     scores |-> IF o.threw THEN Undefined ELSE Some(Get(o.value).scores)]

Permute(as, p) == [i \in 1..Len(as) |-> as[p[i]]]

NoSuchQuestion(a) == ~Exists(a)
OutOfRange(a) == HasOptions(a) /\ ~InRange(a)
NoWeightMapping(a) == InRange(a) /\ SelectedOf(a).weights = Undefined
Ignored(a) == NoSuchQuestion(a) \/ OutOfRange(a) \/ NoWeightMapping(a)

Remove(as, i) == [j \in 1..(Len(as) - 1) |-> IF j < i THEN as[j] ELSE as[j + 1]]

\* C6: an answer that names no question of the bank, or an option index out of
\* range of a question with options, or an option without weights, is ignored:
\* the score vector is the one obtained with that entry removed from the list.
C6_IgnoredEntries ==
    Called => \A i \in 1..Len(answers) :
                 Ignored(answers[i]) =>
                    ScoresOf(calculateQuizScores(quiz, questions, Remove(answers, i), 1))
                        = ScoresOf(Get(outcome))

C6_Witness ==
    /\ Returned
    /\ \E i \in 1..Len(answers) : OutOfRange(answers[i])
    /\ \E j \in 1..Len(answers) :
          \E d \in Declared : Contribution(answers[j], d) # 0 /\ ReturnedScores[d] # 0

\* The bank with every weight for an undeclared dimension taken out.
Restrict(w) == [d \in DOMAIN w \cap Declared |-> w[d]]
StripOption(o) == IF o.weights = Undefined THEN o ELSE [weights |-> <<Restrict(o.weights[1])>>]
StripQuestion(q) ==
    IF q.options = Undefined THEN q
    ELSE [q EXCEPT !.options =
            <<[k \in 1..Len(q.options[1]) |-> StripOption(q.options[1][k])]>>]
StrippedBank == [k \in 1..Len(questions) |-> StripQuestion(questions[k])]

\* C7: a weight for a dimension the quiz does not declare is ignored: the
\* result's key set is exactly the declared set, and the totals are those of
\* the bank without such weights.
C7_UndeclaredIgnored ==
    Returned => /\ DOMAIN ReturnedScores = Declared
                /\ ScoresOf(calculateQuizScores(quiz, StrippedBank, answers, 1))
                       = ScoresOf(Get(outcome))

C7_Witness ==
    /\ Returned
    /\ \E i \in 1..Len(answers) :
          /\ CarriesWeights(answers[i])
          /\ DOMAIN SelectedOf(answers[i]).weights[1] \ Declared # {}
          /\ DOMAIN SelectedOf(answers[i]).weights[1] \cap Declared # {}

\* A dimension counts for the first letter iff its score is present and > 0.
Positive(d) == d \in DOMAIN ReturnedScores /\ ReturnedScores[d] > 0
ExpectedCode ==
    (IF Positive("EI") THEN "E" ELSE "I") \o (IF Positive("SN") THEN "S" ELSE "N")
        \o (IF Positive("TF") THEN "T" ELSE "F") \o (IF Positive("JP") THEN "J" ELSE "P")

Classified == Returned /\ quiz.personalityTypes # Undefined

\* C8: for "mbti-personality" with a category table the code is four letters in
\* the order EI, SN, TF, JP: E/S/T/J iff the score is > 0, I/N/F/P when it is
\* zero, negative or absent; {EI:5, SN:-3, TF:0, JP:-1} yields "ENFP".
C8_MbtiCode ==
    (Classified /\ quiz.id = MBTI) =>
        /\ ReturnedType = <<ExpectedCode>>
        /\ Len(ReturnedType[1]) = 4
        /\ ReturnedScores = [EI |-> 5, SN |-> -3, TF |-> 0, JP |-> -1]
              => ReturnedType = <<"ENFP">>

C8_Witness ==
    /\ Classified /\ quiz.id = MBTI
    /\ ReturnedScores = [EI |-> 5, SN |-> -3, TF |-> 0, JP |-> -1]
    /\ ReturnedType = <<"ENFP">>

\* A quiz without the JP dimension still gets a code, with P in the last place.
C8_WitnessAbsent ==
    /\ Classified /\ quiz.id = MBTI
    /\ "JP" \notin DOMAIN ReturnedScores
    /\ ReturnedType = <<"ENFP">>

\* C9: for any other quiz identity the classifier returns the sentinel
\* "Unknown", whatever the scores, and never a four-letter code.
C9_OtherQuizUnclassified ==
    (Classified /\ quiz.id # MBTI) =>
        ReturnedType = <<"Unknown">> /\ Len(ReturnedType[1]) # 4

C9_Witness ==
    /\ Classified /\ quiz.id # MBTI
    /\ \E d \in Declared : ReturnedScores[d] > 0
    /\ ReturnedType = <<"Unknown">>

\* C10 as claimed: a quiz with no category table, or with an empty one, yields
\* a result whose personality type is absent.
C10_AbsentUnlessNonEmpty ==
    (Returned /\ (quiz.personalityTypes = Undefined
                  \/ quiz.personalityTypes = <<EmptyTable>>))
        => ReturnedType = Undefined

\* C10 amended: the personality type is absent exactly when the quiz declares
\* no category table; an empty table still gets the classifier's result.
C10_AbsentIffNoTable ==
    Returned => (ReturnedType = Undefined <=> quiz.personalityTypes = Undefined)

C10_Witness ==
    /\ Returned
    /\ quiz.personalityTypes = <<EmptyTable>>
    /\ ReturnedType # Undefined

(***************************************************************************)
(* The formatter's claims.                                                 *)
(***************************************************************************)
DescribedKnown ==
    /\ IsDefined(described)
    /\ \E i \in 1..Len(quiz.scales) : quiz.scales[i].id = described[1].scaleId
DescribedScale ==
    quiz.scales[CHOOSE i \in 1..Len(quiz.scales) : quiz.scales[i].id = described[1].scaleId]

\* The sentences that express a band for a scale.
BandSentences(band, scale) ==
    IF band = "Balanced"
    THEN {"Balanced between " \o scale.positiveLabel \o " and " \o scale.negativeLabel}
    ELSE {band \o " preference for " \o scale.positiveLabel,
          band \o " preference for " \o scale.negativeLabel}

\* The band the claim gives an absolute value.
BandOf(a) ==
    CHOOSE band \in {"Strong", "Moderate", "Slight", "Balanced"} :
        /\ band = "Strong" <=> a >= 20
        /\ band = "Moderate" <=> (10 <= a /\ a < 20)
        /\ band = "Slight" <=> (5 <= a /\ a < 10)
        /\ band = "Balanced" <=> a < 5

\* C12: the band depends only on |score|, with inclusive lower bounds 20, 10
\* and 5; a score and its negation get the same band.
C12_BandsByAbsoluteValue ==
    DescribedKnown =>
        LET s == described[1].score
            sentences == BandSentences(BandOf(Abs(s)), DescribedScale)
        IN /\ described[1].description \in sentences
           /\ getScaleDescription(described[1].scaleId, -s, quiz) \in sentences

C12_Witness ==
    /\ DescribedKnown
    /\ described[1].score = -20
    /\ described[1].description = "Strong preference for " \o DescribedScale.negativeLabel

\* C13: a Balanced score gets the neutral sentence naming both labels; any
\* other gets the band name with the positive label iff the score is > 0 and
\* with the negative label iff it is negative.
C13_DescriptionByBandAndSign ==
    DescribedKnown =>
        LET s == described[1].score
            d == described[1].description
            pos == DescribedScale.positiveLabel
            neg == DescribedScale.negativeLabel
        IN IF BandOf(Abs(s)) = "Balanced"
           THEN d = "Balanced between " \o pos \o " and " \o neg
           ELSE /\ d = BandOf(Abs(s)) \o " preference for " \o pos <=> s > 0
                /\ d = BandOf(Abs(s)) \o " preference for " \o neg <=> s < 0

C13_Witness ==
    /\ DescribedKnown
    /\ described[1].score = 7
    /\ described[1].description = "Slight preference for " \o DescribedScale.positiveLabel

\* C14: a positive score is shown with a leading "+", a negative one with its
\* minus sign, zero as "0".
C14_SignedDisplay ==
    IsDefined(displayed) =>
        LET s == displayed[1].score
            t == displayed[1].text
        IN /\ s > 0 => t = "+" \o ToString(s)
           /\ s < 0 => t = "-" \o ToString(-s)
           /\ s = 0 => (t = "0" /\ t # "+0")

C14_Witness ==
    IsDefined(displayed) /\ displayed[1].score = 7 /\ displayed[1].text = "+7"

C14_WitnessNegative ==
    IsDefined(displayed) /\ displayed[1].score = -4 /\ displayed[1].text = "-4"

C14_WitnessZero ==
    IsDefined(displayed) /\ displayed[1].score = 0 /\ displayed[1].text = "0"

\* C16: for a dimension id the quiz does not declare the description is the
\* empty string, whatever the score.
C16_UnknownDimensionEmpty ==
    (IsDefined(described) /\ ~DescribedKnown) => described[1].description = ""

C16_Witness ==
    /\ IsDefined(described)
    /\ described[1].scaleId = "ZZ"
    /\ described[1].score = 25
    /\ described[1].description = ""

(***************************************************************************)
(* The results page end to end.                                            *)
(***************************************************************************)
EndToEndInput ==
    /\ quiz = ABQuiz
    /\ questions = <<QAB>>
    /\ answers = <<[questionId |-> 1, selectedOption |-> 0]>>

\* C11 as claimed: scales A and B, one question with options {A:10} and
\* {B:10}, the first option selected: the scores are {A:10, B:0} and A is
\* described "Strong preference for <A's positive label>".
C11_EndToEndStrong ==
    (EndToEndInput /\ Called) =>
        /\ Returned
        /\ ReturnedScores = [A |-> 10, B |-> 0]
        /\ IsDefined(rendered) =>
              rendered[1][1].description = "Strong preference for " \o ScaleA.positiveLabel

\* C11 amended: the same input gives {A:10, B:0}, and 10 lies in the Moderate
\* band: A is described "Moderate preference for <A's positive label>".
C11_EndToEndModerate ==
    (EndToEndInput /\ Called) =>
        /\ Returned
        /\ ReturnedScores = [A |-> 10, B |-> 0]
        /\ IsDefined(rendered) =>
              /\ rendered[1][1].id = "A"
              /\ rendered[1][1].score = 10
              /\ rendered[1][1].description
                    = "Moderate preference for " \o ScaleA.positiveLabel

C11_Witness ==
    /\ EndToEndInput
    /\ Returned
    /\ ReturnedScores = [A |-> 10, B |-> 0]
    /\ IsDefined(rendered)
    /\ rendered[1][1].description = "Moderate preference for Alpha"

OnePerQuestion(as) ==
    \A i, j \in 1..Len(as) : as[i].questionId = as[j].questionId => i = j

\* C17: in the one-at-a-time flow the stored answers hold at most one entry per
\* question id after any selections, Next and Previous, and so does the list
\* handed over with navigate; Next never appends for a question already stored.
C17_OneEntryPerQuestion ==
    /\ OnePerQuestion(answers)
    /\ Len(answers) <= Len(questions)
    /\ IsDefined(navigated) => /\ OnePerQuestion(navigated[1].answers)
                               /\ navigated[1].answers = answers

C17_Witness ==
    /\ replaced
    /\ IsDefined(navigated)
    /\ Len(navigated[1].answers) = Len(questions)
    /\ Len(questions) >= 2

\* The entries of a list for a question id.
EntriesFor(as, id) == {i \in 1..Len(as) : as[i].questionId = id}
BankIds == {questions[i].id : i \in 1..Len(questions)}

\* C18 as claimed: navigate is called from the last page only, and the list it
\* passes has an entry for every question of the bank, each with the option
\* selected last for that question.
C18_AllAnsweredLastSelected ==
    IsDefined(navigated) =>
        /\ fromPage = <<totalPages - 1>>
        /\ \A id \in BankIds :
              /\ Cardinality(EntriesFor(navigated[1].answers, id)) = 1
              /\ id \in DOMAIN lastPick
              /\ \A i \in EntriesFor(navigated[1].answers, id) :
                    navigated[1].answers[i].selectedOption = lastPick[id]

\* C18 amended: navigate is called from the last page only, and the list it
\* passes has exactly one entry for every question of the bank, each with the
\* option that was shown selected when the question's page was last left with
\* Next (a later selection that Previous discarded does not count).
C18_AllAnsweredAsLeft ==
    IsDefined(navigated) =>
        /\ fromPage = <<totalPages - 1>>
        /\ Len(navigated[1].answers) = Len(questions)
        /\ \A id \in BankIds :
              /\ Cardinality(EntriesFor(navigated[1].answers, id)) = 1
              /\ id \in DOMAIN leftWith
              /\ \A i \in EntriesFor(navigated[1].answers, id) :
                    navigated[1].answers[i].selectedOption = leftWith[id]

C18_Witness ==
    /\ IsDefined(navigated)
    /\ totalPages = 3
    /\ fromPage = <<2>>
    /\ replaced
    /\ \E id \in BankIds : lastPick[id] # leftWith[id]

\* The stored selections of a page's questions, as a map.
StoredFor(page) ==
    LET qs == PageQuestions(page)
        ids == {qs[i].id : i \in 1..Len(qs)} \cap {answers[j].questionId : j \in 1..Len(answers)}
    IN [id \in ids |->
           answers[CHOOSE j \in 1..Len(answers) : answers[j].questionId = id].selectedOption]

\* C19: Previous changes the page index only (one down above 0, nothing on
\* page 0) and leaves the stored answers as they are; once the page-load
\* effect has run the selections shown are exactly the stored ones of the
\* page's questions, so selections not saved by Next are gone.
C19_PreviousKeepsAnswers ==
    [][/\ Paged_handlePrevious =>
            /\ currentPageIndex' = (IF currentPageIndex > 0 THEN currentPageIndex - 1
                                    ELSE currentPageIndex)
            /\ UNCHANGED <<answers, pageAnswers, navigated, quiz, questions>>
       /\ PageLoadEffect => pageAnswers' = StoredFor(currentPageIndex')]_vars

C19_Witness ==
    /\ ~effectPending
    /\ ~IsDefined(navigated)
    /\ pageAnswers = StoredFor(currentPageIndex)
    /\ \E id \in DOMAIN lastPick :
          /\ EntriesFor(answers, id) = {}
          /\ \A i \in 1..Len(currentPageQuestions) : currentPageQuestions[i].id # id

====
